---- MODULE Spec2Model ----
(***************************************************************************)
(* StudySketch AI: the generation pipeline (services/gemini), the          *)
(* application handlers (App.tsx, ChatPanel.tsx) and the diagram renderer  *)
(* (MermaidDiagram).                                                       *)
(*                                                                         *)
(* Text is modelled as a sequence of fragments (strings): the empty text   *)
(* is <<>>, concatenation is \o, and "text contains keyword k" is "k is    *)
(* one of the fragments".  A null string is "null", a null object is the   *)
(* record [null |-> TRUE].                                                 *)
(*                                                                         *)
(* The specifications of the module:                                       *)
(*   SpecRenderer  one mounted MermaidDiagram instance whose `code` prop   *)
(*                 is changed by its parent;                               *)
(*   Spec          the App component: Generate, follow-up questions and    *)
(*                 the calls in flight, all events in one millisecond;     *)
(*   SpecTimed     Spec with Date.now() advancing between events;          *)
(*   SpecService   generateDiagramAndSummary / askQuestionAboutContent     *)
(*                 applied to inputs drawn from bounded sets.              *)
(***************************************************************************)
EXTENDS Integers, Sequences, FiniteSets, TLC

\* ------------------------------------------------------------------ bounds
MaxAttempts == 3      \* render attempts / prop changes of one renderer instance
MaxGenerate == 2      \* Generate actions that start a call
MaxAsk      == 2      \* submitted follow-up questions
MaxClock    == 1      \* largest value of the millisecond clock

VARIABLES
  \* MermaidDiagram
  code,              \* the `code` prop
  svgContent,        \* useState<string>('')
  renderError,       \* useState<string | null>(null)
  attempts,          \* render attempts issued so far, in order of issue
  pending,           \* indices of attempts whose mermaid.render has not settled
  viewport,          \* the transform held by the mounted TransformWrapper
  \* App
  apiKey,            \* process.env.API_KEY || ''
  inputText,
  selectedFile,
  selectedType,
  processingState,
  content,
  contentSource,     \* the text and file given to the call that produced content
  chatMessages,
  isChatLoading,
  genCalls,          \* generateDiagramAndSummary calls awaiting the service
  askCalls,          \* askQuestionAboutContent calls awaiting the service
  numGenerate,       \* Generate actions that passed the material check
  numAsk,            \* questions submitted
  numRequests,       \* requests sent to the generation service
  now,               \* Date.now()
  \* service functions applied to drawn inputs
  svcArgs,
  svcResult

rendererVars == <<code, svgContent, renderError, attempts, pending, viewport>>
appVars      == <<apiKey, inputText, selectedFile, selectedType, processingState,
                  content, contentSource, chatMessages, isChatLoading, genCalls,
                  askCalls, numGenerate, numAsk, numRequests, now>>
svcVars      == <<svcArgs, svcResult>>
vars         == <<rendererVars, appVars, svcVars>>

Null == "null"            \* a null string (renderError)
NoFile == [null |-> TRUE]   \* selectedFile === null
NoContent == [null |-> TRUE] \* content === null
NoSource  == [null |-> TRUE] \* no content yet, nothing it was made from

\* ============================================================ MermaidDiagram

\* Markup the parent can supply.  "A" and "B" render; "X" and "Y" are rejected
\* by mermaid, "Y" with an error that carries no message.
GoodMarkup == {"A", "B"}
BadMarkup  == {"X", "Y"}
Markups    == GoodMarkup \cup BadMarkup

\* mermaid.render(id, code): resolves with { svg } or rejects with an error.
MermaidRender(m) ==
  IF m \in GoodMarkup
    THEN [ok |-> TRUE,  svg |-> "svg-" \o m, message |-> ""]
    ELSE [ok |-> FALSE, svg |-> "", message |-> IF m = "X" THEN "parse error X" ELSE ""]

\* error.message || "Failed to render diagram"
RenderErrorText(r) == IF r.message # "" THEN r.message ELSE "Failed to render diagram"

\* containerRef.current is set iff the last commit rendered the viewport
\* branch: neither the "No diagram data" view nor the error view.
ContainerMounted(c, err) == c # "" /\ err = Null

\* renderDiagram up to its await, run by the effect after `c` is committed:
\* does this run call mermaid.render?
StartsRender(c, err) == c # "" /\ ContainerMounted(c, err)

\* What the component shows once attempt results are applied.
RenderStateOfResult(m) ==
  LET r == MermaidRender(m) IN
  IF r.ok THEN [svgContent |-> r.svg, renderError |-> Null]
          ELSE [svgContent |-> "",    renderError |-> RenderErrorText(r)]

RenderState == [svgContent |-> svgContent, renderError |-> renderError]

\* The transforms of the viewport: the one TransformWrapper mounts with
\* (initialScale, centerOnInit) and others that its operations lead to.
InitialTransform == "initial"
Transforms       == {InitialTransform, "zoomed", "panned"}

\* The operations of the viewport: the three buttons, the wheel, a drag.
ViewportOps == {"zoomIn", "zoomOut", "resetTransform", "wheel", "pan"}

\* TransformWrapper is rendered in the last return only, next to the
\* container: a commit that leaves that view unmounts it, and the next mount
\* starts from the initial transform.
ViewportAfter(c, err, c2, err2, v) ==
  IF ContainerMounted(c, err) /\ ContainerMounted(c2, err2) THEN v ELSE InitialTransform

\* The parent re-renders the instance with a new `code`; the effect on
\* [code, onError] runs renderDiagram.
SetCode(m) ==
  /\ m # code
  /\ Len(attempts) < MaxAttempts
  /\ code' = m
  /\ renderError' = Null
  /\ IF StartsRender(m, renderError)
       THEN /\ attempts' = Append(attempts, [code |-> m, overlaps |-> pending # {}])
            /\ pending' = pending \cup {Len(attempts) + 1}
       ELSE UNCHANGED <<attempts, pending>>
  /\ viewport' = ViewportAfter(code, renderError, m, Null, viewport)
  /\ UNCHANGED <<svgContent, appVars, svcVars>>

\* The continuation of renderDiagram after `await mermaid.render`.
ApplyRenderResult(i) ==
  LET r == MermaidRender(attempts[i].code) IN
  IF r.ok
    THEN /\ svgContent' = r.svg
         /\ UNCHANGED renderError
    ELSE /\ svgContent' = ""
         /\ renderError' = RenderErrorText(r)

RenderSettles(i) ==
  /\ i \in pending
  /\ pending' = pending \ {i}
  /\ ApplyRenderResult(i)
  /\ viewport' = ViewportAfter(code, renderError, code, renderError', viewport)
  /\ UNCHANGED <<code, attempts, appVars, svcVars>>

\* An operation of the viewport that also runs renderDiagram.
ViewportOp_Rerenders(op, t) ==
  /\ ContainerMounted(code, renderError)
  /\ Len(attempts) < MaxAttempts
  /\ viewport' = t
  /\ attempts' = Append(attempts, [code |-> code, overlaps |-> pending # {}])
  /\ pending' = pending \cup {Len(attempts) + 1}
  /\ UNCHANGED <<code, svgContent, renderError, appVars, svcVars>>

\* A click on a zoom button, a wheel turn or a drag inside the viewport: the
\* handlers call zoomIn(), zoomOut(), resetTransform() of the wrapper, which
\* holds the transform; which transform an operation gives is the package's
\* matter, so any is possible.
ViewportOp(op, t) ==
  /\ ContainerMounted(code, renderError)
  /\ viewport' = t
  /\ UNCHANGED <<code, svgContent, renderError, attempts, pending, appVars, svcVars>>

RendererInit ==
  /\ code \in Markups \cup {""}
  /\ svgContent = ""
  /\ renderError = Null
  /\ attempts = IF StartsRender(code, Null) THEN <<[code |-> code, overlaps |-> FALSE]>> ELSE <<>>
  /\ pending = IF StartsRender(code, Null) THEN {1} ELSE {}
  /\ viewport = InitialTransform

RendererIdle ==
  /\ code = ""
  /\ svgContent = ""
  /\ renderError = Null
  /\ attempts = <<>>
  /\ pending = {}
  /\ viewport = InitialTransform

\* ======================================================= services/gemini.ts

DiagramType == {"mindmap", "flowchart", "sequence", "timeline", "orgchart", "gantt"}

\* The per-type lines of the prompt: the Mermaid syntax keywords each line
\* quotes and the rest of the line.
GrammarTable ==
  [ mindmap   |-> [keywords |-> <<"mindmap">>,
                   rules |-> "Focus on hierarchy and connections. Root node should be central concept."],
    flowchart |-> [keywords |-> <<"graph TD", "graph LR">>,
                   rules |-> "Focus on processes or logical flow."],
    sequence  |-> [keywords |-> <<"sequenceDiagram">>,
                   rules |-> "Focus on interactions over time."],
    timeline  |-> [keywords |-> <<"timeline">>,
                   rules |-> "Focus on chronological events."],
    orgchart  |-> [keywords |-> <<"graph TD">>,
                   rules |-> "Structure it hierarchically (CEO -> Managers -> Staff). Use styling to distinguish levels."],
    gantt     |-> [keywords |-> <<"gantt">>,
                   rules |-> "STRICTLY follow this format: dateFormat YYYY-MM-DD / title / section / task. Avoid multiple titles."] ]

DialectKeywords(t) == {GrammarTable[t].keywords[i] : i \in DOMAIN GrammarTable[t].keywords}

\* "'k1' or 'k2'" as fragments, each keyword a fragment of its own.
RECURSIVE QuotedKeywords(_)
QuotedKeywords(ks) ==
  IF Len(ks) = 0 THEN <<>>
  ELSE IF Len(ks) = 1 THEN <<"'", ks[1], "'">>
  ELSE <<"'", ks[1], "'", " or ">> \o QuotedKeywords(Tail(ks))

\* One "- ${DiagramType.X}: Use '...' syntax. ..." line of the template.
GrammarLine(t) ==
  <<"- ", t, ": Use ">> \o QuotedKeywords(GrammarTable[t].keywords)
     \o <<" syntax. ", GrammarTable[t].rules, "\n">>

\* The order in which the template lists the six types.
TypeOrder == <<"mindmap", "flowchart", "sequence", "timeline", "orgchart", "gantt">>

RECURSIVE GrammarLines(_)
GrammarLines(ts) ==
  IF Len(ts) = 0 THEN <<>> ELSE GrammarLine(ts[1]) \o GrammarLines(Tail(ts))

\* The `prompt` template literal with ${type} interpolated, listing the
\* instruction lines of the types `listed`.
PromptTemplate(type, listed) ==
  <<"Analyze the provided content (text or document) and perform three tasks:\n",
    "1. Create a concise summary of the key concepts (max 300 words).\n",
    "2. Generate a Mermaid.js diagram code block that visually represents the information.\n",
    "3. Create 5-10 study flashcards (Question and Answer pairs) based on the most important facts.\n",
    "The diagram type must be: ", type, ".\n",
    "SPECIFIC INSTRUCTIONS FOR DIAGRAM TYPE:\n">>
  \o GrammarLines(listed)
  \o <<"Output Format (JSON): { summary, diagramCode, flashcards: [{ front, back }] }\n",
       "IMPORTANT: Return ONLY valid JSON. Ensure the mermaid code is syntactically correct and escapes characters properly. Do not include markdown formatting outside the JSON string.\n">>

\* A template that lost its last instruction line.
Prompt_WithoutGanttLine(type) == PromptTemplate(type, SubSeq(TypeOrder, 1, 5))

Prompt(type) == PromptTemplate(type, TypeOrder)

Contains(text, fragment) == \E i \in DOMAIN text : text[i] = fragment

InlineDataPart(file) == [kind |-> "inlineData", mimeType |-> file.mimeType, data |-> file.data]
TextPart(t)          == [kind |-> "text", text |-> t]

\* The two pushes in the other order.
MaterialParts_TextFirst(input, file) ==
  (IF input # <<>> THEN <<TextPart(input)>> ELSE <<>>)
  \o (IF file # NoFile THEN <<InlineDataPart(file)>> ELSE <<>>)

\* `parts` after the two conditional pushes (file, then input).
MaterialParts(input, file) ==
  (IF file # NoFile THEN <<InlineDataPart(file)>> ELSE <<>>)
  \o (IF input # <<>> THEN <<TextPart(input)>> ELSE <<>>)

Throw(msg)    == [kind |-> "throw", message |-> msg]
Request(ps)   == [kind |-> "request", parts |-> ps]

\* The two checks in the other order.
GenerateRequest_InputCheckFirst(key, input, file, type) ==
  IF Len(MaterialParts(input, file)) = 0 THEN Throw("No input provided")
  ELSE IF key = "" THEN Throw("API Key is missing")
  ELSE Request(Append(MaterialParts(input, file), TextPart(Prompt(type))))

\* No check of parts.length.
GenerateRequest_NoInputCheck(key, input, file, type) ==
  IF key = "" THEN Throw("API Key is missing")
  ELSE Request(Append(MaterialParts(input, file), TextPart(Prompt(type))))

\* generateDiagramAndSummary up to the call of ai.models.generateContent:
\* either it throws, or it sends the request `parts`.
GenerateRequest(key, input, file, type) ==
  IF key = "" THEN Throw("API Key is missing")
  ELSE IF Len(MaterialParts(input, file)) = 0 THEN Throw("No input provided")
  ELSE Request(Append(MaterialParts(input, file), TextPart(Prompt(type))))

\* ---- replies of the service and JSON.parse
\* A reply text is a sequence of fragments; a fragment that is a JSON
\* document is named by a key of JsonDocs.  A JSON value carries its kind in
\* t; a string member is its text, or Undefined where the member is absent.
Undefined  == "<undefined>"
JUndefined == [t |-> "undefined"]
JNull      == [t |-> "null"]
JNumber    == [t |-> "num"]                        \* a number other than 0
JString(s) == [t |-> "str", v |-> s]
JArray(es) == [t |-> "arr", v |-> es]
JCard(id, front, back) == [t |-> "obj", id |-> id, front |-> front, back |-> back]
JDoc(summary, diagramCode, flashcards) ==
  [t |-> "obj", summary |-> summary, diagramCode |-> diagramCode, flashcards |-> flashcards]

JsonDocs ==
  [ empty    |-> JDoc(Undefined, Undefined, JUndefined),
    full     |-> JDoc("S", "A", JArray(<<JCard("card-7", "Q1", "A1"),
                                         JCard(Undefined, Undefined, "A2")>>)),
    blanks   |-> JDoc("", "", JArray(<<JCard(Undefined, "Q1", "")>>)),
    noCards  |-> JDoc("S", "A", JNull),
    noList   |-> JDoc("S", "A", JString("none")),
    nullCard |-> JDoc("S", "A", JArray(<<JNull, JCard(Undefined, "Q1", "A1")>>)),
    numCard  |-> JDoc("S", "A", JArray(<<JNumber, JCard(Undefined, "Q1", "A1")>>)),
    nullTop  |-> JNull,
    numTop   |-> JNumber ]

JsonDocNames == DOMAIN JsonDocs

FenceOpenJson  == "<fence json LF>"   \* the fragment ```json\n
FenceOpenPlain == "<fence LF>"        \* the fragment ```\n
FenceClose     == "<LF fence>"        \* the fragment \n```

\* The replies the service gives in the runs of the App.
Replies ==
  { <<"full">>,
    <<FenceOpenJson, "full", FenceClose>>,
    <<"not json">> }

\* JSON.parse(text): succeeds iff the whole text is one JSON document.
JsonParse(text) ==
  IF Len(text) = 1 /\ text[1] \in JsonDocNames
    THEN [ok |-> TRUE,  value |-> JsonDocs[text[1]]]
    ELSE [ok |-> FALSE, value |-> JsonDocs["empty"]]

\* text.replace(/```json\n|\n```/g, '')
StripFences(text) == SelectSeq(text, LAMBDA f : f \notin {FenceOpenJson, FenceClose})

\* A parser that falls back to the empty document when the text is no JSON.
ParseReply_FallsBackToEmpty(text) ==
  IF JsonParse(text).ok THEN JsonParse(text) ELSE [ok |-> TRUE, value |-> JsonDocs["empty"]]

\* JSON.parse(text), and on failure JSON.parse of the cleaned text.
ParseReply(text) ==
  IF JsonParse(text).ok THEN JsonParse(text) ELSE JsonParse(StripFences(text))

\* A default that replaces the empty string only.
Falsy_EmptyOnly(s) == s = ""

\* The left operand of `||` is taken when it is truthy.
Falsy(s)  == s \in {Undefined, ""}
Truthy(j) == j.t \in {"obj", "arr", "num"} \/ (j.t = "str" /\ j.v # "")

\* json.summary, json.diagramCode, card.front, card.back: a property read of
\* a value that is not an object gives undefined.
SummaryOf(j)     == IF j.t = "obj" THEN j.summary     ELSE Undefined
DiagramCodeOf(j) == IF j.t = "obj" THEN j.diagramCode ELSE Undefined
FrontOf(card)    == IF card.t = "obj" THEN card.front ELSE Undefined
BackOf(card)     == IF card.t = "obj" THEN card.back  ELSE Undefined

\* json.flashcards || []
FlashcardsOrEmpty(j) ==
  IF j.t = "obj" /\ Truthy(j.flashcards) THEN j.flashcards ELSE JArray(<<>>)

\* The property reads and the .map call that throw a TypeError: a read on
\* null, .map on a value that is not an array.
ThrowsTypeError(j) ==
  \/ j.t \in {"null", "undefined"}
  \/ FlashcardsOrEmpty(j).t # "arr"
  \/ \E i \in DOMAIN FlashcardsOrEmpty(j).v : FlashcardsOrEmpty(j).v[i].t \in {"null", "undefined"}

\* A map that numbers no card.
MapFlashcards_TimestampOnly(cards, t) ==
  [i \in DOMAIN cards |->
     [id    |-> <<t, 0>>,
      front |-> IF Falsy(FrontOf(cards[i])) THEN "Question" ELSE FrontOf(cards[i]),
      back  |-> IF Falsy(BackOf(cards[i]))  THEN "Answer"   ELSE BackOf(cards[i])]]

\* (...).map((card, index) => ({ id: `fc-${Date.now()}-${index}`, ... }))
MapFlashcards(cards, t) ==
  [i \in DOMAIN cards |->
     [id    |-> <<t, i - 1>>,
      front |-> IF Falsy(FrontOf(cards[i])) THEN "Question" ELSE FrontOf(cards[i]),
      back  |-> IF Falsy(BackOf(cards[i]))  THEN "Answer"   ELSE BackOf(cards[i])]]

Return(v) == [kind |-> "return", value |-> v]

\* The service's side of a call: it fails, or it answers with a text.
ServiceFailure  == [ok |-> FALSE, text |-> <<>>]
ServiceReply(t) == [ok |-> TRUE,  text |-> t]

\* response.text || "{}"
ReplyText(outcome) == IF outcome.text # <<>> THEN outcome.text ELSE <<"empty">>

\* generateDiagramAndSummary from the settled service call on: the try block
\* and its catch.
GenerateResult(type, outcome, t) ==
  LET json == ParseReply(ReplyText(outcome))
  IN IF ~outcome.ok \/ ~json.ok \/ ThrowsTypeError(json.value)
       THEN Throw("Failed to process content with Gemini.")
       ELSE Return([summary     |-> IF Falsy(SummaryOf(json.value))
                                      THEN "Could not generate summary."
                                      ELSE SummaryOf(json.value),
                    diagramCode |-> IF Falsy(DiagramCodeOf(json.value))
                                      THEN ""
                                      ELSE DiagramCodeOf(json.value),
                    diagramType |-> type,
                    flashcards  |-> MapFlashcards(FlashcardsOrEmpty(json.value).v, t)])

\* ---- askQuestionAboutContent
ToUpperCase(role) == IF role = "user" THEN "USER" ELSE "MODEL"

\* history.forEach(msg => contextPrompt += `${ROLE}: ${content}\n`)
RECURSIVE HistoryLines(_)
HistoryLines(history) ==
  IF Len(history) = 0 THEN <<>>
  ELSE <<ToUpperCase(history[1].role), ": ">> \o history[1].content \o <<"\n">>
       \o HistoryLines(Tail(history))

\* A prompt with the question ahead of the transcript.
ContextPrompt_QuestionBeforeHistory(history, currentQuestion, contextText) ==
  <<"Context from uploaded document/notes:\n">>
  \o (IF contextText # <<>> THEN contextText \o <<"\n\n">> ELSE <<>>)
  \o <<"\nUSER QUESTION: ">> \o currentQuestion \o <<"\n">>
  \o <<"Chat History:\n">>
  \o HistoryLines(history)
  \o <<"Answer the user's question based strictly on the provided context. Be helpful and concise.">>

ContextPrompt(history, currentQuestion, contextText) ==
  <<"Context from uploaded document/notes:\n">>
  \o (IF contextText # <<>> THEN contextText \o <<"\n\n">> ELSE <<>>)
  \o <<"Chat History:\n">>
  \o HistoryLines(history)
  \o <<"\nUSER QUESTION: ">> \o currentQuestion \o <<"\n">>
  \o <<"Answer the user's question based strictly on the provided context. Be helpful and concise.">>

\* askQuestionAboutContent up to the call of ai.models.generateContent.
AskRequest(key, history, currentQuestion, contextText, contextFile) ==
  IF key = "" THEN Throw("API Key is missing")
  ELSE Request((IF contextFile # NoFile THEN <<InlineDataPart(contextFile)>> ELSE <<>>)
               \o <<TextPart(ContextPrompt(history, currentQuestion, contextText))>>)

\* askQuestionAboutContent from the settled call on; a rejection of the
\* service call propagates to the caller.
AskResult(outcome) ==
  IF ~outcome.ok THEN Throw("service call failed")
  ELSE Return(IF outcome.text # <<>> THEN outcome.text ELSE <<"I couldn't generate an answer.">>)

Answers == {<<>>, <<"answer">>}

\* ================================================================== App.tsx

Texts       == {<<>>, <<"notes">>}                 \* values of the notes textarea
Files       == {[name |-> "a.pdf", mimeType |-> "application/pdf", data |-> "JVBERi0="]}
TypeChoices == {"mindmap", "gantt"}                \* style buttons pressed in the App runs
ChatInputs  == {<<"q1">>, <<" ">>}       \* values of the chat input box

\* input.trim(): leading and trailing blank fragments are removed.
RECURSIVE TrimStart(_)
TrimStart(t) == IF Len(t) > 0 /\ t[1] = " " THEN TrimStart(Tail(t)) ELSE t
RECURSIVE TrimEnd(_)
TrimEnd(t) == IF Len(t) > 0 /\ t[Len(t)] = " " THEN TrimEnd(SubSeq(t, 1, Len(t) - 1)) ELSE t
Trim(t) == TrimEnd(TrimStart(t))

Status(st)        == [status |-> st, message |-> ""]
StatusMsg(st, m)  == [status |-> st, message |-> m]
ProcessingStatus  == StatusMsg("processing", "Analyzing content & generating visualization...")
ErrorStatus       == StatusMsg("error", "Failed to generate content. Please try again.")

ApologyText == <<"Sorry, I encountered an error while processing your request.">>

UserMessage(text, t) == [id |-> t,     role |-> "user",  content |-> text, timestamp |-> t]
BotMessage(text, t)  == [id |-> t + 1, role |-> "model", content |-> text, timestamp |-> t]

\* A Generate button that is never disabled.
GenerateEnabled_Always == TRUE

\* The Generate button: disabled={processingState.status === 'processing'}.
GenerateEnabled == processingState.status # "processing"

\* The right-hand pane (with the ChatPanel) is rendered in the last branch of
\* the main-area conditional only.
ChatPanelVisible ==
  /\ ~(processingState.status = "idle" /\ content = NoContent)
  /\ processingState.status # "processing"

\* A handleSubmit that does not look at isLoading.
SubmitAccepted_IgnoresLoading(input) == Trim(input) # <<>>

\* ChatPanel.handleSubmit: if (!input.trim() || isLoading) return;
SubmitAccepted(input) == Trim(input) # <<>> /\ ~isChatLoading

\* A catch block that only logs.
AnswerTurns_NothingOnError(res, t) ==
  IF res.kind = "return" THEN <<BotMessage(res.value, t)>> ELSE <<>>

\* The turns the try / catch of handleSendMessage appends for a settled call.
AnswerTurns(res, t) ==
  IF res.kind = "return" THEN <<BotMessage(res.value, t)>>
                         ELSE <<BotMessage(ApologyText, t)>>

\* setChatMessages([]) at the start of handleGenerate.
TranscriptAtGenerate(msgs) == <<>>

SetInputText(t) ==
  /\ t # inputText
  /\ inputText' = t
  /\ UNCHANGED <<rendererVars, svcVars, apiKey, selectedFile, selectedType, processingState, content, contentSource, chatMessages,
                 isChatLoading, genCalls, askCalls, numGenerate, numAsk, numRequests, now>>

\* FileUpload: the drop zone is shown while no file is selected.
SelectFile(f) ==
  /\ selectedFile = NoFile
  /\ selectedFile' = f
  /\ UNCHANGED <<rendererVars, svcVars, apiKey, inputText, selectedType, processingState, content, contentSource, chatMessages,
                 isChatLoading, genCalls, askCalls, numGenerate, numAsk, numRequests, now>>

ClearFile ==
  /\ selectedFile # NoFile
  /\ selectedFile' = NoFile
  /\ UNCHANGED <<rendererVars, svcVars, apiKey, inputText, selectedType, processingState, content, contentSource, chatMessages,
                 isChatLoading, genCalls, askCalls, numGenerate, numAsk, numRequests, now>>

SetSelectedType(t) ==
  /\ t # selectedType
  /\ selectedType' = t
  /\ UNCHANGED <<rendererVars, svcVars, apiKey, inputText, selectedFile, processingState, content, contentSource, chatMessages,
                 isChatLoading, genCalls, askCalls, numGenerate, numAsk, numRequests, now>>

Tick ==
  /\ now < MaxClock
  /\ now' = now + 1
  /\ UNCHANGED <<rendererVars, svcVars, apiKey, inputText, selectedFile, selectedType, processingState, content, contentSource,
                 chatMessages, isChatLoading, genCalls, askCalls, numGenerate, numAsk,
                 numRequests>>

\* A click on Generate: handleGenerate up to its await.  A call that throws
\* before it reaches the service is caught in the same turn of the event loop.
HandleGenerate ==
  /\ GenerateEnabled
  /\ numGenerate < MaxGenerate
  /\ IF inputText = <<>> /\ selectedFile = NoFile
       THEN UNCHANGED <<processingState, chatMessages, genCalls, numGenerate, numRequests>>
       ELSE LET req == GenerateRequest(apiKey, inputText, selectedFile, selectedType) IN
            /\ chatMessages' = TranscriptAtGenerate(chatMessages)
            /\ numGenerate' = numGenerate + 1
            /\ IF req.kind = "throw"
                 THEN /\ processingState' = ErrorStatus
                      /\ UNCHANGED <<genCalls, numRequests>>
                 ELSE /\ processingState' = ProcessingStatus
                      /\ genCalls' = genCalls \cup
                           {[id |-> numGenerate + 1, input |-> inputText, file |-> selectedFile,
                             type |-> selectedType, parts |-> req.parts]}
                      /\ numRequests' = numRequests + 1
  /\ UNCHANGED <<rendererVars, svcVars, apiKey, inputText, selectedFile, selectedType, content, contentSource, isChatLoading,
                 askCalls, numAsk, now>>

GenerateOutcomes == {ServiceFailure} \cup {ServiceReply(t) : t \in Replies}

\* A handler that sends the request again when the call has failed.
GenerateSettles_RetriesOnFailure(c, outcome) ==
  /\ c \in genCalls
  /\ LET res == GenerateResult(c.type, outcome, now) IN
       IF res.kind = "return"
         THEN /\ genCalls' = genCalls \ {c}
              /\ content' = res.value
              /\ contentSource' = [text |-> c.input, file |-> c.file]
              /\ processingState' = Status("completed")
              /\ UNCHANGED numRequests
         ELSE /\ numRequests' = numRequests + 1
              /\ UNCHANGED <<genCalls, content, contentSource, processingState>>
  /\ UNCHANGED <<rendererVars, svcVars, apiKey, inputText, selectedFile, selectedType, chatMessages, isChatLoading,
                 askCalls, numGenerate, numAsk, now>>

\* A handler whose catch block only logs.
GenerateSettles_StatusLeftOnFailure(c, outcome) ==
  /\ c \in genCalls
  /\ genCalls' = genCalls \ {c}
  /\ LET res == GenerateResult(c.type, outcome, now) IN
       IF res.kind = "return"
         THEN /\ content' = res.value
              /\ contentSource' = [text |-> c.input, file |-> c.file]
              /\ processingState' = Status("completed")
         ELSE UNCHANGED <<processingState, content, contentSource>>
  /\ UNCHANGED <<rendererVars, svcVars, apiKey, inputText, selectedFile, selectedType, chatMessages, isChatLoading,
                 askCalls, numGenerate, numAsk, numRequests, now>>

\* A handler that stamps the content with the type selected when the call
\* settles.
GenerateSettles_TypeAtSettle(c, outcome) ==
  /\ c \in genCalls
  /\ genCalls' = genCalls \ {c}
  /\ LET res == GenerateResult(selectedType, outcome, now) IN
       IF res.kind = "return"
         THEN /\ content' = res.value
              /\ contentSource' = [text |-> c.input, file |-> c.file]
              /\ processingState' = Status("completed")
         ELSE /\ processingState' = ErrorStatus
              /\ UNCHANGED <<content, contentSource>>
  /\ UNCHANGED <<rendererVars, svcVars, apiKey, inputText, selectedFile, selectedType, chatMessages, isChatLoading,
                 askCalls, numGenerate, numAsk, numRequests, now>>

\* The service call of a generation settles: the rest of
\* generateDiagramAndSummary, then the rest of handleGenerate.
GenerateSettles(c, outcome) ==
  /\ c \in genCalls
  /\ genCalls' = genCalls \ {c}
  /\ LET res == GenerateResult(c.type, outcome, now) IN
       IF res.kind = "return"
         THEN /\ content' = res.value
              /\ contentSource' = [text |-> c.input, file |-> c.file]
              /\ processingState' = Status("completed")
         ELSE /\ processingState' = ErrorStatus
              /\ UNCHANGED <<content, contentSource>>
  /\ UNCHANGED <<rendererVars, svcVars, apiKey, inputText, selectedFile, selectedType, chatMessages, isChatLoading,
                 askCalls, numGenerate, numAsk, numRequests, now>>

\* A submit of the chat form: ChatPanel.handleSubmit, then handleSendMessage
\* up to its await.
SubmitQuestion(input) ==
  /\ ChatPanelVisible
  /\ numAsk < MaxAsk
  /\ IF ~SubmitAccepted(input)
       THEN UNCHANGED <<chatMessages, isChatLoading, askCalls, numAsk, numRequests>>
       ELSE LET newMessage == UserMessage(input, now)
                req == AskRequest(apiKey, Append(chatMessages, newMessage), input,
                                  inputText, selectedFile)
            IN /\ numAsk' = numAsk + 1
               /\ IF req.kind = "throw"
                    THEN /\ chatMessages' = Append(chatMessages, newMessage)
                                              \o AnswerTurns(req, now)
                         /\ isChatLoading' = FALSE
                         /\ UNCHANGED <<askCalls, numRequests>>
                    ELSE /\ chatMessages' = Append(chatMessages, newMessage)
                         /\ isChatLoading' = TRUE
                         /\ askCalls' = askCalls \cup
                              {[id |-> numAsk + 1, text |-> inputText, file |-> selectedFile,
                                parts |-> req.parts, generation |-> numGenerate]}
                         /\ numRequests' = numRequests + 1
  /\ UNCHANGED <<rendererVars, svcVars, apiKey, inputText, selectedFile, selectedType, processingState, content, contentSource,
                 genCalls, numGenerate, now>>

AskOutcomes == {ServiceFailure} \cup {ServiceReply(a) : a \in Answers}

\* The service call of a question settles: the rest of
\* askQuestionAboutContent, then the try / catch / finally of handleSendMessage.
AskSettles(c, outcome) ==
  /\ c \in askCalls
  /\ askCalls' = askCalls \ {c}
  /\ chatMessages' = chatMessages \o AnswerTurns(AskResult(outcome), now)
  /\ isChatLoading' = FALSE
  /\ UNCHANGED <<rendererVars, svcVars, apiKey, inputText, selectedFile, selectedType, processingState, content, contentSource,
                 genCalls, numGenerate, numAsk, numRequests, now>>

AppInit ==
  /\ apiKey \in {"", "key"}
  /\ inputText = <<>>
  /\ selectedFile = NoFile
  /\ selectedType = "mindmap"
  /\ processingState = Status("idle")
  /\ content = NoContent
  /\ contentSource = NoSource
  /\ chatMessages = <<>>
  /\ isChatLoading = FALSE
  /\ genCalls = {}
  /\ askCalls = {}
  /\ numGenerate = 0
  /\ numAsk = 0
  /\ numRequests = 0
  /\ now = 0

AppIdle ==
  /\ apiKey = ""
  /\ inputText = <<>>
  /\ selectedFile = NoFile
  /\ selectedType = "mindmap"
  /\ processingState = Status("idle")
  /\ content = NoContent
  /\ contentSource = NoSource
  /\ chatMessages = <<>>
  /\ isChatLoading = FALSE
  /\ genCalls = {}
  /\ askCalls = {}
  /\ numGenerate = 0
  /\ numAsk = 0
  /\ numRequests = 0
  /\ now = 0

SvcIdle ==
  /\ svcArgs = [fn |-> "none"]
  /\ svcResult = [kind |-> "none"]

\* ------------------------------------------- the service functions on inputs

SampleHistories ==
  { <<>>,
    <<UserMessage(<<"What is X?">>, 0)>>,
    <<UserMessage(<<"What is X?">>, 0), BotMessage(<<"X is 1.">>, 0)>>,
    <<UserMessage(<<"What is X?">>, 0), BotMessage(<<"X is 1.">>, 0),
      UserMessage(<<"And Y?">>, 1)>> }

SampleTexts == {<<>>, <<"X is 1. Y is 2.">>}
SampleQuestions == {<<"And Y?">>, <<"q1">>}

\* The replies the service gives to the calls drawn here: every JSON
\* document on its own, the empty text, a document inside a fence with and
\* without the language tag, a document that follows prose, and texts that
\* are no JSON.
SampleReplies ==
  Replies \cup { <<d>> : d \in JsonDocNames }
          \cup { <<>>,
                 <<FenceOpenPlain, "full", FenceClose>>,
                 <<FenceOpenJson, "not json", FenceClose>>,
                 <<"Here you go:", "full">> }

SampleGenerateOutcomes == {ServiceFailure} \cup {ServiceReply(t) : t \in SampleReplies}
SampleAskOutcomes      == {ServiceFailure} \cup {ServiceReply(a) : a \in Answers}

\* A drawn call: the arguments of the function, the clock at the time the
\* reply is processed, and the outcome the service has for the request.
GenerateArgs ==
  [fn : {"generate"}, key : {"", "key"}, input : SampleTexts, file : Files \cup {NoFile},
   type : DiagramType, now : 0..MaxClock, outcome : SampleGenerateOutcomes]

AskArgs ==
  [fn : {"ask"}, key : {"", "key"}, history : SampleHistories, question : SampleQuestions,
   text : SampleTexts, file : Files \cup {NoFile}, outcome : SampleAskOutcomes]

NoResult == [kind |-> "none"]

SvcInit ==
  /\ svcArgs \in GenerateArgs \cup AskArgs
  /\ svcResult = NoResult

\* generateDiagramAndSummary(input, file, type) up to its await.
SvcCallGenerate ==
  /\ svcArgs.fn = "generate"
  /\ svcResult = NoResult
  /\ svcResult' = GenerateRequest(svcArgs.key, svcArgs.input, svcArgs.file, svcArgs.type)
  /\ UNCHANGED <<svcArgs, appVars, rendererVars>>

\* ... and from the settled service call on.
SvcSettleGenerate ==
  /\ svcArgs.fn = "generate"
  /\ svcResult.kind = "request"
  /\ svcResult' = GenerateResult(svcArgs.type, svcArgs.outcome, svcArgs.now)
  /\ UNCHANGED <<svcArgs, appVars, rendererVars>>

\* askQuestionAboutContent(history, currentQuestion, contextText, contextFile)
\* up to its await.
SvcCallAsk ==
  /\ svcArgs.fn = "ask"
  /\ svcResult = NoResult
  /\ svcResult' = AskRequest(svcArgs.key, svcArgs.history, svcArgs.question,
                             svcArgs.text, svcArgs.file)
  /\ UNCHANGED <<svcArgs, appVars, rendererVars>>

SvcSettleAsk ==
  /\ svcArgs.fn = "ask"
  /\ svcResult.kind = "request"
  /\ svcResult' = AskResult(svcArgs.outcome)
  /\ UNCHANGED <<svcArgs, appVars, rendererVars>>

\* ----------------------------------------------------------- specifications

RendererStart == RendererInit /\ AppIdle /\ SvcIdle

RendererNext ==
  \/ \E m \in Markups \cup {""} : SetCode(m)
  \/ \E i \in 1..MaxAttempts : RenderSettles(i)
  \/ \E op \in ViewportOps, t \in Transforms : ViewportOp(op, t)

SpecRenderer == RendererStart /\ [][RendererNext]_vars

Init == AppInit /\ RendererIdle /\ SvcIdle

Next ==
  \/ \E t \in Texts : SetInputText(t)
  \/ \E f \in Files : SelectFile(f)
  \/ ClearFile
  \/ \E t \in TypeChoices : SetSelectedType(t)
  \/ HandleGenerate
  \/ \E c \in genCalls, o \in GenerateOutcomes : GenerateSettles(c, o)
  \/ \E q \in ChatInputs : SubmitQuestion(q)
  \/ \E c \in askCalls, o \in AskOutcomes : AskSettles(c, o)

\* The App with all events inside one millisecond.
Spec == Init /\ [][Next]_vars

\* The App with the clock advancing between events.
NextTimed == Next \/ Tick

SpecTimed == Init /\ [][NextTimed]_vars

SvcStart == SvcInit /\ AppIdle /\ RendererIdle

SvcNext ==
  \/ SvcCallGenerate
  \/ SvcSettleGenerate
  \/ SvcCallAsk
  \/ SvcSettleAsk

SpecService == SvcStart /\ [][SvcNext]_vars

\* =================================================================== claims

LastAttempt == attempts[Len(attempts)]

\* C1 (SpecRenderer): when markup B is submitted while the render of an earlier
\* markup is still pending, then once every render has settled the render
\* state is the result of rendering B, the markup submitted last.
C1_LatestRenderWins ==
  (/\ pending = {}
   /\ Len(attempts) >= 2
   /\ LastAttempt.overlaps
   /\ LastAttempt.code = code)
  => RenderState = RenderStateOfResult(code)

\* C2 (SpecRenderer): every change of the markup to a new non-empty value
\* starts a render attempt for the new markup, whatever the current state.
C2_MarkupChangeStartsRender ==
  [][(code' # code /\ code' # "")
       => (/\ Len(attempts') = Len(attempts) + 1
           /\ attempts'[Len(attempts')].code = code'
           /\ Len(attempts') \in pending')]_vars

\* C3 (Spec): when a generation installs its content (status becomes
\* 'completed') the transcript is empty, and while the content of the latest
\* generation is installed no answer or placeholder of a question asked before
\* that generation started is appended.
C3_TranscriptResetStaleDiscarded ==
  [][/\ ((\E g \in genCalls : g \notin genCalls') /\ processingState'.status = "completed")
          => chatMessages' = <<>>
     /\ \A c \in askCalls :
          (c \notin askCalls' /\ processingState.status = "completed")
            => c.generation = numGenerate]_vars

\* C4 (Spec): at most one generateDiagramAndSummary call is outstanding, and
\* while one is outstanding the status is 'processing', which disables Generate.
C4_StatusGate ==
  /\ Cardinality(genCalls) <= 1
  /\ genCalls # {} => (processingState.status = "processing" /\ ~GenerateEnabled)

C4_Witness ==
  /\ Cardinality(genCalls) = 1
  /\ numGenerate = 2
  /\ processingState.status = "processing"

\* C5, as claimed (Spec): while an answer is outstanding the chat form still
\* accepts a question.
C5_NoQuestionGate ==
  (askCalls # {} /\ numAsk < MaxAsk) => \E q \in ChatInputs : SubmitAccepted(q)

\* C5, amended (Spec): while an answer is outstanding isChatLoading is true and
\* the chat form accepts no question, so at most one askQuestionAboutContent
\* call is in flight.
C5_AtMostOneQuestionInFlight ==
  /\ Cardinality(askCalls) <= 1
  /\ askCalls # {} => (isChatLoading /\ \A q \in ChatInputs : ~SubmitAccepted(q))

C5_Witness ==
  /\ Cardinality(askCalls) = 1
  /\ numAsk = 2
  /\ isChatLoading

AnswerTexts == {AskResult(ServiceReply(a)).value : a \in Answers}

\* One assistant turn with one of `texts` is appended after the turns `before`.
OneModelTurnAppended(before, after, texts) ==
  /\ Len(after) = Len(before) + 1
  /\ SubSeq(after, 1, Len(before)) = before
  /\ after[Len(after)].role = "model"
  /\ after[Len(after)].content \in texts

\* C6 (Spec): a question whose call settles gets exactly one assistant turn
\* appended, the answer or the apology; a question whose call throws before it
\* reaches the service (no credential) gets the apology in the same step.
C6_AnswerNeverDropped ==
  [][/\ \A c \in askCalls : c \notin askCalls'
          => OneModelTurnAppended(chatMessages, chatMessages',
                                  AnswerTexts \cup {ApologyText})
     /\ (numAsk' = numAsk + 1 /\ askCalls' = askCalls)
          => /\ Len(chatMessages') = Len(chatMessages) + 2
             /\ chatMessages'[Len(chatMessages') - 1].role = "user"
             /\ OneModelTurnAppended(SubSeq(chatMessages', 1, Len(chatMessages) + 1),
                                     chatMessages', {ApologyText})]_vars

C6_Witness ==
  /\ apiKey = "key"
  /\ askCalls = {}
  /\ Len(chatMessages) = 2
  /\ chatMessages[1].role = "user"
  /\ chatMessages[2].role = "model"
  /\ chatMessages[2].content = ApologyText

\* C7 (SpecService): with no credential both service functions throw the
\* missing-credential error and never send a request, and every other failure
\* carries a different error.
C7_MissingCredentialFailsFast ==
  /\ (svcArgs.fn # "none" /\ svcArgs.key = "") => svcResult.kind \in {"none", "throw"}
  /\ svcResult.kind = "throw"
       => (svcResult.message = "API Key is missing" <=> svcArgs.key = "")

C7_Witness ==
  /\ svcArgs.fn = "ask"
  /\ svcArgs.key = ""
  /\ svcResult = Throw("API Key is missing")

NoMaterialCall ==
  /\ svcArgs.fn = "generate"
  /\ svcArgs.input = <<>>
  /\ svcArgs.file = NoFile
  /\ svcResult # NoResult

\* C8, as claimed (SpecService): with empty text and no file
\* generateDiagramAndSummary fails with the invalid-input error.
C8_NoMaterialIsInvalidInput ==
  NoMaterialCall => svcResult = Throw("No input provided")

\* C8, amended (SpecService): with empty text and no file
\* generateDiagramAndSummary sends no request and fails, with the invalid-input
\* error when a credential is configured and with the missing-credential error
\* when none is.
C8_NoMaterialFailsWithoutRequest ==
  NoMaterialCall =>
    svcResult = IF svcArgs.key = "" THEN Throw("API Key is missing")
                ELSE Throw("No input provided")

C8_Witness ==
  /\ NoMaterialCall
  /\ svcArgs.key = "key"
  /\ svcResult = Throw("No input provided")

GenerateRequestSent == svcArgs.fn = "generate" /\ svcResult.kind = "request"

\* C9 (SpecService): the segments of a generation request are the inline file
\* (iff a file is given), then the text (iff it is non-empty), then the
\* instruction as the single last segment.
C9_SegmentOrder ==
  GenerateRequestSent =>
    LET ps      == svcResult.parts
        hasFile == svcArgs.file # NoFile
        hasText == svcArgs.input # <<>>
        nFile   == IF hasFile THEN 1 ELSE 0
        nText   == IF hasText THEN 1 ELSE 0
    IN /\ Len(ps) = nFile + nText + 1
       /\ hasFile => /\ ps[1].kind = "inlineData"
                     /\ ps[1].mimeType = svcArgs.file.mimeType
                     /\ ps[1].data = svcArgs.file.data
       /\ hasText => /\ ps[nFile + 1].kind = "text"
                     /\ ps[nFile + 1].text = svcArgs.input
       /\ ps[Len(ps)].kind = "text"
       /\ Contains(ps[Len(ps)].text, "The diagram type must be: ")
       /\ \A i \in 1..(Len(ps) - 1) :
            ps[i].kind = "text" => ~Contains(ps[i].text, "The diagram type must be: ")

C9_Witness ==
  /\ GenerateRequestSent
  /\ svcArgs.file # NoFile
  /\ svcArgs.input # <<>>
  /\ Len(svcResult.parts) = 3

Instruction == svcResult.parts[Len(svcResult.parts)].text

\* C10, as claimed (SpecService): the instruction segment contains the dialect
\* keyword of the selected type and the dialect keyword of no other type.
C10_OnlyOwnDialectKeyword ==
  GenerateRequestSent =>
    /\ \A k \in DialectKeywords(svcArgs.type) : Contains(Instruction, k)
    /\ \A t \in DiagramType \ {svcArgs.type} :
         \A k \in DialectKeywords(t) : ~Contains(Instruction, k)

\* C10, amended (SpecService): the instruction segment names the selected type
\* as the required diagram type and contains its dialect keyword; it lists the
\* instruction lines, and so the dialect keywords, of all six types.
C10_NamesTypeListsAllDialects ==
  GenerateRequestSent =>
    /\ \E i \in 1..(Len(Instruction) - 1) :
         Instruction[i] = "The diagram type must be: " /\ Instruction[i + 1] = svcArgs.type
    /\ \A t \in DiagramType : \A k \in DialectKeywords(t) : Contains(Instruction, k)

C10_Witness ==
  /\ GenerateRequestSent
  /\ svcArgs.type = "orgchart"
  /\ Contains(Instruction, "gantt")

\* The service call of a drawn generation has settled and the function has
\* run to its end.
GenerateSettled ==
  /\ svcArgs.fn = "generate"
  /\ \/ svcResult.kind = "return"
     \/ svcResult = Throw("Failed to process content with Gemini.")

ReplyOf(args) == ReplyText(args.outcome)

\* A JSON document between an opening fence line, with the language tag json
\* or with none, and a closing fence line.
FencedDocument(text) ==
  /\ Len(text) = 3
  /\ text[1] \in {FenceOpenJson, FenceOpenPlain}
  /\ text[2] \in JsonDocNames
  /\ text[3] = FenceClose

\* C11 (SpecService): a reply that is a JSON document inside a markdown fence,
\* with or without a language tag, gives the result that the document on its
\* own gives.
C11_FencedReplyParsesAsUnwrapped ==
  (GenerateSettled /\ svcArgs.outcome.ok /\ FencedDocument(ReplyOf(svcArgs))) =>
    svcResult = GenerateResult(svcArgs.type, ServiceReply(<<ReplyOf(svcArgs)[2]>>), svcArgs.now)

\* A reply that neither decoding accepts.
Undecodable(o) ==
  /\ o.ok
  /\ ~JsonParse(ReplyText(o)).ok
  /\ ~JsonParse(StripFences(ReplyText(o))).ok

\* C12 (Spec): when the reply to a generation call fails the direct decoding
\* and the decoding of the cleaned text, the function throws and returns no
\* content, and the step that settles the call leaves the App's content as it
\* was and puts the status to error.
C12_UndecodableReplyFailsWhole ==
  [][\A g \in genCalls, o \in GenerateOutcomes :
       (Undecodable(o) /\ GenerateSettles(g, o)) =>
          /\ GenerateResult(g.type, o, now) = Throw("Failed to process content with Gemini.")
          /\ content' = content
          /\ processingState' = ErrorStatus]_vars

\* A generation whose request was sent has failed while the content of an
\* earlier generation is on display.
C12_Witness ==
  /\ content # NoContent
  /\ processingState = ErrorStatus
  /\ numRequests = 2
  /\ genCalls = {}

\* C13 (SpecService): every reply that decodes, at once or after the cleanup,
\* gives a GeneratedContent; the generation fails only for a reply that does
\* not decode.
C13_DecodedReplyNeverFailsWhole ==
  (GenerateSettled /\ svcArgs.outcome.ok /\ ParseReply(ReplyOf(svcArgs)).ok) =>
    svcResult.kind = "return"

Decoded == ParseReply(ReplyOf(svcArgs)).value

ContentReturned == GenerateSettled /\ svcResult.kind = "return"

\* C14, as claimed (SpecService): a missing summary becomes the placeholder, a
\* missing diagram the empty string, absent flashcards the empty sequence, a
\* missing front or back "Question" or "Answer" with the card in its place;
\* a member that is present is returned as it is.
C14_PresentFieldsUnchanged ==
  ContentReturned =>
    LET c     == svcResult.value
        cards == FlashcardsOrEmpty(Decoded).v
    IN /\ c.summary = IF SummaryOf(Decoded) = Undefined
                        THEN "Could not generate summary." ELSE SummaryOf(Decoded)
       /\ c.diagramCode = IF DiagramCodeOf(Decoded) = Undefined
                            THEN "" ELSE DiagramCodeOf(Decoded)
       /\ Len(c.flashcards) = Len(cards)
       /\ \A i \in DOMAIN cards :
            /\ c.flashcards[i].front = IF FrontOf(cards[i]) = Undefined
                                         THEN "Question" ELSE FrontOf(cards[i])
            /\ c.flashcards[i].back = IF BackOf(cards[i]) = Undefined
                                        THEN "Answer" ELSE BackOf(cards[i])

\* C14 (SpecService): a summary that is missing or empty becomes the
\* placeholder, a missing diagram the empty string, absent flashcards the empty
\* sequence, a front or back that is missing or empty "Question" or "Answer"
\* with the card in its place; a member that is present and not empty is
\* returned as it is.
C14_NonEmptyFieldsUnchanged ==
  ContentReturned =>
    LET c     == svcResult.value
        cards == FlashcardsOrEmpty(Decoded).v
    IN /\ c.summary = IF SummaryOf(Decoded) \in {Undefined, ""}
                        THEN "Could not generate summary." ELSE SummaryOf(Decoded)
       /\ c.diagramCode = IF DiagramCodeOf(Decoded) = Undefined
                            THEN "" ELSE DiagramCodeOf(Decoded)
       /\ (Decoded.t = "obj" /\ Decoded.flashcards = JUndefined) => c.flashcards = <<>>
       /\ Len(c.flashcards) = Len(cards)
       /\ \A i \in DOMAIN cards :
            /\ c.flashcards[i].front = IF FrontOf(cards[i]) \in {Undefined, ""}
                                         THEN "Question" ELSE FrontOf(cards[i])
            /\ c.flashcards[i].back = IF BackOf(cards[i]) \in {Undefined, ""}
                                        THEN "Answer" ELSE BackOf(cards[i])

\* A content with a placeholder in a card that keeps its place, from a reply
\* whose second card has no front.
C14_Witness ==
  /\ ContentReturned
  /\ ReplyOf(svcArgs) = <<"full">>
  /\ svcResult.value.flashcards[2].front = "Question"
  /\ svcResult.value.flashcards[2].back = "A2"
  /\ svcResult.value.summary = "S"

\* C15 (SpecService): a returned content has one flashcard per entry of the
\* reply, in the order of the entries; the identifier of a card is made of the
\* clock value and the ordinal of the card, identifiers are pairwise distinct,
\* and an identifier that the reply supplies is not used.
C15_CardIdsDistinctAndAssigned ==
  ContentReturned =>
    LET fs    == svcResult.value.flashcards
        cards == FlashcardsOrEmpty(Decoded).v
    IN /\ Len(fs) = Len(cards)
       /\ \A i, j \in DOMAIN fs : i # j => fs[i].id # fs[j].id
       /\ \A i \in DOMAIN fs :
            /\ fs[i].id = <<svcArgs.now, i - 1>>
            /\ FrontOf(cards[i]) \notin {Undefined, ""} => fs[i].front = FrontOf(cards[i])
            /\ BackOf(cards[i]) \notin {Undefined, ""} => fs[i].back = BackOf(cards[i])

\* Two cards from a reply whose first entry carries an identifier of its own.
C15_Witness ==
  /\ ContentReturned
  /\ ReplyOf(svcArgs) = <<"full">>
  /\ JsonDocs["full"].flashcards.v[1].id = "card-7"
  /\ Len(svcResult.value.flashcards) = 2
  /\ svcResult.value.flashcards[1].id # svcResult.value.flashcards[2].id

AskRequestSent == svcArgs.fn = "ask" /\ svcResult.kind = "request"

\* The number of fragments that the lines of the turns before turn i take.
RECURSIVE TurnOffset(_, _)
TurnOffset(h, i) == IF i = 1 THEN 0 ELSE TurnOffset(h, i - 1) + Len(h[i - 1].content) + 3

\* C16 (SpecService): a question request has the inline file first iff a file
\* is given, and then one text; the text holds, in this order, the source text
\* iff it is non-empty, one line "ROLE: content" per turn of the given
\* transcript in the order of the turns, the new question, and the instruction
\* to answer strictly from the context, and nothing after it.
C16_ContextAssembly ==
  AskRequestSent =>
    LET ps      == svcResult.parts
        h       == svcArgs.history
        q       == svcArgs.question
        hasFile == svcArgs.file # NoFile
        hasText == svcArgs.text # <<>>
        txt     == ps[Len(ps)].text
        chat    == IF hasText THEN Len(svcArgs.text) + 3 ELSE 2
        ask     == chat + 1 + TurnOffset(h, Len(h) + 1)
    IN /\ Len(ps) = IF hasFile THEN 2 ELSE 1
       /\ hasFile => /\ ps[1].kind = "inlineData"
                     /\ ps[1].mimeType = svcArgs.file.mimeType
                     /\ ps[1].data = svcArgs.file.data
       /\ ps[Len(ps)].kind = "text"
       /\ hasText => SubSeq(txt, 2, Len(svcArgs.text) + 1) = svcArgs.text
       /\ txt[chat] = "Chat History:\n"
       /\ \A i \in DOMAIN h :
            LET at == chat + 1 + TurnOffset(h, i) IN
              /\ txt[at] = (IF h[i].role = "user" THEN "USER" ELSE "MODEL")
              /\ txt[at + 1] = ": "
              /\ SubSeq(txt, at + 2, at + 1 + Len(h[i].content)) = h[i].content
              /\ txt[at + 2 + Len(h[i].content)] = "\n"
       /\ txt[ask] = "\nUSER QUESTION: "
       /\ SubSeq(txt, ask + 1, ask + Len(q)) = q
       /\ txt[ask + Len(q) + 1] = "\n"
       /\ txt[ask + Len(q) + 2] =
            "Answer the user's question based strictly on the provided context. Be helpful and concise."
       /\ Len(txt) = ask + Len(q) + 2

\* A question request with a file, a source text and three turns.
C16_Witness ==
  /\ AskRequestSent
  /\ svcArgs.file # NoFile
  /\ svcArgs.text # <<>>
  /\ Len(svcArgs.history) = 3
  /\ Len(svcResult.parts) = 2

\* C17 (Spec): a question asked about the content on display is sent with the
\* text and the file that were given to the generation call that produced
\* that content, whatever the inputs hold by then.
C17_FollowUpSendsGenerationMaterial ==
  [][\A c \in askCalls' \ askCalls :
       content # NoContent =>
         /\ c.text = contentSource.text
         /\ c.file = contentSource.file]_vars

\* C18 (Spec): a step sends at most one request, and only a step of a user
\* action (a Generate click, a submitted question) sends one and puts one
\* call in flight; a step that settles a call sends nothing and puts no call
\* in flight, whether the call failed or not; the reply of a call that settles
\* is accepted only when it decodes as it is or after the one cleanup.
C18_NoAutomaticRetry ==
  [][/\ numRequests' \in {numRequests, numRequests + 1}
     /\ numRequests' <= numGenerate' + numAsk'
     /\ numRequests' = numRequests + 1 =>
          \/ /\ numGenerate' = numGenerate + 1 /\ numAsk' = numAsk
             /\ Cardinality(genCalls' \ genCalls) = 1 /\ askCalls' = askCalls
          \/ /\ numAsk' = numAsk + 1 /\ numGenerate' = numGenerate
             /\ Cardinality(askCalls' \ askCalls) = 1 /\ genCalls' = genCalls
     /\ numRequests' = numRequests => (genCalls' \subseteq genCalls /\ askCalls' \subseteq askCalls)
     /\ \A g \in genCalls \ genCalls', o \in GenerateOutcomes :
          GenerateResult(g.type, o, now).kind = "return" =>
            o.ok /\ (JsonParse(ReplyText(o)).ok \/ JsonParse(StripFences(ReplyText(o))).ok)]_vars

\* The one request of a generation has failed and nothing is in flight.
C18_Witness ==
  /\ apiKey # ""
  /\ numGenerate = 1
  /\ numRequests = 1
  /\ processingState = ErrorStatus
  /\ genCalls = {}
  /\ askCalls = {}

\* C19 (Spec): a generation call is made for the type selected at the click,
\* its instruction is the one of that type, and the content it installs has
\* that type, whatever type is selected when the call settles.
C19_TypeFixedAtStart ==
  [][/\ \A g \in genCalls' \ genCalls :
          /\ g.type = selectedType
          /\ g.parts[Len(g.parts)] = TextPart(Prompt(selectedType))
     /\ \A g \in genCalls \ genCalls' :
          processingState'.status = "completed" => content'.diagramType = g.type]_vars

\* The content of a call made for one type is on display while another type
\* is selected and nothing was generated since.
C19_Witness ==
  /\ numGenerate = 1
  /\ processingState.status = "completed"
  /\ content # NoContent
  /\ content.diagramType # selectedType

\* C21 (SpecRenderer): a zoom, a pan or a reset changes nothing but the
\* transform of the viewport: the markup, svgContent and renderError stay as
\* they are, no render attempt is started and none is settled.
C21_ViewportOpsOnlyMoveViewport ==
  [][\A op \in ViewportOps, t \in Transforms :
       ViewportOp(op, t) =>
         /\ code' = code
         /\ svgContent' = svgContent
         /\ renderError' = renderError
         /\ attempts' = attempts
         /\ pending' = pending]_vars

\* A rendered diagram under a transform other than the initial one.
C21_Witness ==
  /\ svgContent # ""
  /\ renderError = Null
  /\ code # ""
  /\ viewport # InitialTransform

\* C22 (Spec): the text of a question request that handleSendMessage sends is
\* the prompt built from the turns that were in the transcript before the
\* question, followed by the question as the USER QUESTION: the question is
\* not among the "Chat History" lines.
C22_HistoryIsPriorTurns ==
  [][\A c \in askCalls' \ askCalls :
       c.parts[Len(c.parts)].text =
         ContextPrompt(chatMessages, chatMessages'[Len(chatMessages')].content, c.text)]_vars

\* C23 (Spec): a generation that fails leaves the content and the transcript
\* as they were and puts the status to error with the generic message, when
\* the call throws before it reaches the service (no credential) and when the
\* call settles with a failure.
C23_FailedGenerationChangesOnlyStatus ==
  [][/\ (numGenerate' = numGenerate + 1 /\ genCalls' = genCalls)
          => /\ processingState' = ErrorStatus
             /\ content' = content
             /\ chatMessages' = chatMessages
     /\ \A g \in genCalls \ genCalls' :
          processingState'.status # "completed"
            => /\ processingState' = ErrorStatus
               /\ content' = content
               /\ chatMessages' = chatMessages]_vars

\* C24 (Spec): the status is 'processing' exactly while a generation call is
\* outstanding; a step that starts a call puts it to 'processing', the step
\* that settles the call puts it to 'completed' when content is installed and
\* to 'error' otherwise; a Generate click with no text and no file changes
\* neither status, content nor transcript and starts no call.
C24_ProcessingWhileOutstanding ==
  [][/\ (processingState.status = "processing") <=> (genCalls # {})
     /\ (processingState'.status = "processing") <=> (genCalls' # {})
     /\ genCalls' \ genCalls # {} => processingState' = ProcessingStatus
     /\ \A g \in genCalls \ genCalls' :
          \/ processingState' = Status("completed") /\ content' # NoContent
          \/ processingState' = ErrorStatus /\ content' = content
     /\ (HandleGenerate /\ inputText = <<>> /\ selectedFile = NoFile)
          => /\ UNCHANGED <<processingState, content, chatMessages, genCalls>>
             /\ UNCHANGED <<numGenerate, numRequests>>]_vars

\* Two generation calls have settled, the later one with content, and none is
\* outstanding.
C24_Witness ==
  /\ numRequests = 2
  /\ numGenerate = 2
  /\ genCalls = {}
  /\ processingState = Status("completed")
  /\ chatMessages = <<>>
  /\ contentSource # NoSource

\* C25 (SpecTimed): the turns of the transcript have pairwise distinct ids.
C25_MessageIdsDistinct ==
  \A i, j \in DOMAIN chatMessages :
    i # j => chatMessages[i].id # chatMessages[j].id

====
